---- MODULE Spec2Model ----
(***************************************************************************)
(* Verification model of the InertiaNode adapter: the response resolution  *)
(* engine (InertiaResponse), the response factory and its per-request      *)
(* copies, and the protocol rules applied by the framework adapters.       *)
(***************************************************************************)
EXTENDS Integers, Sequences, FiniteSets, TLC

VARIABLES
    props,      \* InertiaResponse.props: ordered entries [k, v] (a JS object)
    tree0,      \* the property tree as it was when the last toResponse began
    req,        \* the request handed to the last toResponse
    page,       \* what the last toResponse produced: a page, an error, or NoPage
    pc,         \* "ready": the Response can be built/resolved, "done": resolved
    rinfo,      \* the Response's other fields: version, root view, encrypt
                \* flag and URL resolver, as its constructor received them
    inertia,    \* the global Inertia instance (an InertiaResponseFactory)
    manifest,   \* the version the VersionDetector callback currently yields
    options,    \* the InertiaMiddlewareOptions the adapter was created with
    areq,       \* the request the adapter handled last
    handler,    \* what the downstream handler of that request does
    aresp,      \* the final response to that request
    vary,       \* whether that response carries Vary: X-Inertia
    nextCalls,  \* how often the adapter invoked next() for that request
    adapter,    \* the adapter the application mounts: "nestjs" or "koa"
    active,     \* the requests in flight (past the adapter's middleware)
    inst,       \* per request: the factory createInertiaProperty created
    pg,         \* per request: the page object its Inertia property rendered last
    sharedBy,   \* per request: the keys it shared through its Inertia property
    versionsBy, \* per request: the versions it set through its Inertia property
    latest,     \* per key: the value of the last share call that set it
    given,      \* the props handed to the last render call
    snap,       \* per request: the page the Response gave when render returned
    ssr,        \* the last SsrGateway.dispatch call: its inputs and its outcome
    built       \* a Merge or Defer prop under construction and the calls made on it

rvars == <<props, tree0, req, page, pc, rinfo>>
gvars == <<inertia, manifest, options>>
avars == <<areq, handler, aresp, vary, nextCalls>>

ivars == <<adapter, active, inst, pg, sharedBy, versionsBy>>

fvars == <<latest, given, snap>>

svars == <<ssr, built>>

vars == <<rvars, gvars, avars, ivars, fvars, svars>>

\* ------------------------------------------------------------------------
\* Bounds
\* ------------------------------------------------------------------------
MaxOnly == 2        \* longest X-Inertia-Partial-Data list
MaxExcept == 1      \* longest X-Inertia-Partial-Except list
MaxReset == 1       \* longest X-Inertia-Reset list
MaxPaths == 2       \* most paths pushed by append(path) and prepend(path) on one prop

\* ------------------------------------------------------------------------
\* JavaScript values of a property tree
\* ------------------------------------------------------------------------
Undefined == [kind |-> "undefined"]
Plain(n) == [kind |-> "plain", v |-> n]
\* a pending promise that settles to n
Promise(n) == [kind |-> "promise", v |-> n]
\* a zero-argument closure, represented by the value it returns
Fn(r) == [kind |-> "function", ret |-> r]
Obj(es) == [kind |-> "object", entries |-> es]
Entry(key, val) == [k |-> key, v |-> val]

NoGroup == "<null>"

LazyProp(cb) == [kind |-> "LazyProp", callback |-> cb]
OptionalProp(cb) == [kind |-> "OptionalProp", callback |-> cb]
AlwaysProp(val) == [kind |-> "AlwaysProp", value |-> val]
DeferProp(cb, g) ==
    [kind |-> "DeferProp", callback |-> cb, groupValue |-> g,
     mergeFlag |-> FALSE, deepMergeFlag |-> FALSE, matchOnArray |-> <<>>]
MergeProp(val) ==
    [kind |-> "MergeProp", value |-> val,
     mergeFlag |-> TRUE, deepMergeFlag |-> FALSE, matchOnArray |-> <<>>]

\* merge(), deepMerge() and matchOn(strategy) of MergeProp and DeferProp
merge(v) == [v EXCEPT !.mergeFlag = TRUE]
\* deepMerge() setting its own flag only
deepMergeMutant(v) == [v EXCEPT !.deepMergeFlag = TRUE]
\* this.deepMergeFlag = true; return this.merge()
deepMerge(v) == merge([v EXCEPT !.deepMergeFlag = TRUE])
matchOn(v, strategies) == [v EXCEPT !.matchOnArray = strategies]
shouldMerge(v) == v.mergeFlag
shouldDeepMerge(v) == v.deepMergeFlag
matchesOn(v) == v.matchOnArray

VariantKinds == {"LazyProp", "OptionalProp", "AlwaysProp", "DeferProp", "MergeProp"}

\* ------------------------------------------------------------------------
\* JS objects as ordered entry lists
\* ------------------------------------------------------------------------
KeysOf(o) == {o[i].k : i \in DOMAIN o}
Has(o, key) == \E i \in DOMAIN o : o[i].k = key
Get(o, key) ==
    IF Has(o, key) THEN o[CHOOSE i \in DOMAIN o : o[i].k = key].v ELSE Undefined
Put(o, key, val) ==
    IF Has(o, key)
    THEN [i \in DOMAIN o |-> IF o[i].k = key THEN Entry(key, val) ELSE o[i]]
    ELSE Append(o, Entry(key, val))
Del(o, key) == SelectSeq(o, LAMBDA e : e.k # key)

RECURSIVE Spread(_, _)
\* { ...a, ...b }
Spread(a, b) ==
    IF b = <<>> THEN a ELSE Spread(Put(a, Head(b).k, Head(b).v), Tail(b))

\* typeof v === 'object' && v !== null
IsObjectLike(v) == v.kind \in (VariantKinds \cup {"object", "promise"})
\* key in v, for the path segments of the model (none names a private field
\* of a variant instance or a member of Promise.prototype)
In(key, v) == v.kind = "object" /\ Has(v.entries, key)

\* ------------------------------------------------------------------------
\* Prop variants
\* ------------------------------------------------------------------------
Thrown == [kind |-> "thrown"]

\* __invoke() of the five variants; Thrown when callback is not callable
Invoke(v) ==
    IF v.kind \in {"LazyProp", "OptionalProp", "DeferProp"}
    THEN IF v.callback.kind = "function" THEN v.callback.ret ELSE Thrown
    ELSE IF v.value.kind = "function" THEN v.value.ret ELSE v.value

\* the first-load filter without its DeferProp test
IsIgnoreFirstLoadMutant(v) == v.kind \in {"LazyProp", "OptionalProp"}
\* prop instanceof LazyProp || prop instanceof OptionalProp || prop instanceof DeferProp
IsIgnoreFirstLoad(v) == v.kind \in {"LazyProp", "OptionalProp", "DeferProp"}

\* ------------------------------------------------------------------------
\* Requests
\* ------------------------------------------------------------------------
component == "User/Edit"
NoHeader == ""

\* split(',').filter(Boolean): a header is a list of items, an item a dotted
\* path already split into its segments; the empty item is <<>>
ParseList(h) == SelectSeq(h, LAMBDA p : p # <<>>)

isPartial(rq) == rq.partialComponent = component

\* ------------------------------------------------------------------------
\* InertiaResponse: dot-notation helpers
\* ------------------------------------------------------------------------
RECURSIVE getNestedFrom(_, _)
getNestedFrom(cur, path) ==
    IF path = <<>> THEN cur
    ELSE IF IsObjectLike(cur) /\ In(Head(path), cur)
         THEN getNestedFrom(Get(cur.entries, Head(path)), Tail(path))
         ELSE Undefined
getNestedValue(obj, path) == getNestedFrom(Obj(obj), path)

RECURSIVE SetIn(_, _, _)
\* the walk of setNestedValue below `cur`; the class body is strict-mode code,
\* so `in` on a primitive and an assignment to a property of a primitive or
\* of undefined throw a TypeError.  A property set on a function, a promise
\* or a variant instance is an expando no code reads: the value is unchanged.
SetIn(cur, path, val) ==
    IF cur.kind \in {"plain", "undefined"} THEN Thrown
    ELSE IF cur.kind # "object" THEN cur
    ELSE IF Len(path) = 1 THEN Obj(Put(cur.entries, path[1], val))
    ELSE LET child == IF Has(cur.entries, Head(path))
                      THEN Get(cur.entries, Head(path)) ELSE Obj(<<>>)
             r == SetIn(child, Tail(path), val)
         IN  IF r.kind = "thrown" THEN Thrown
             ELSE Obj(Put(cur.entries, Head(path), r))

RECURSIVE UnsetIn(_, _)
UnsetIn(cur, path) ==
    IF ~(IsObjectLike(cur) /\ In(Head(path), cur)) THEN cur
    ELSE IF Len(path) = 1 THEN Obj(Del(cur.entries, Head(path)))
    ELSE Obj(Put(cur.entries, Head(path),
                 UnsetIn(Get(cur.entries, Head(path)), Tail(path))))

\* A resolution in progress: w is the working `props` object, self is
\* this.props, top says that w IS this.props (same reference), alias is the
\* set of top-level keys of w whose value is the very object stored under the
\* same key of this.props, err says that a TypeError was thrown.
RState(w, self, top, alias, err) ==
    [w |-> w, self |-> self, top |-> top, alias |-> alias, err |-> err,
     invoked |-> {}]

\* setNestedValue(newProps, key, value); direct: value is this.props[key] itself
setNestedValue(s, path, val, direct) ==
    LET r == SetIn(Obj(s.w), path, val)
        k == Head(path)
    IN  IF r.kind = "thrown" THEN [s EXCEPT !.err = TRUE]
        ELSE IF Len(path) = 1
             THEN [s EXCEPT !.w = r.entries,
                            !.alias = IF direct THEN @ \cup {k} ELSE @ \ {k}]
             ELSE [s EXCEPT !.w = r.entries,
                            !.self = IF k \in s.alias /\ Has(s.w, k)
                                     THEN Put(@, k, Get(r.entries, k)) ELSE @]

\* unsetNestedValue(props, key)
unsetNestedValue(s, path) ==
    LET r == UnsetIn(Obj(s.w), path)
        k == Head(path)
    IN  [s EXCEPT !.w = r.entries,
                  !.self = IF s.top THEN r.entries
                           ELSE IF Len(path) > 1 /\ k \in s.alias /\ Has(s.w, k)
                                THEN Put(@, k, Get(r.entries, k)) ELSE @]

\* ------------------------------------------------------------------------
\* InertiaResponse: resolution of the property tree
\* ------------------------------------------------------------------------
RECURSIVE SelectOnly(_, _)
\* for (const key of only) { ... }
SelectOnly(only, s) ==
    IF only = <<>> \/ s.err THEN s
    ELSE LET key == Head(only)
             value == getNestedValue(s.self, key)
             isDefer == value.kind = "DeferProp"
             val == IF isDefer THEN Invoke(value) ELSE value
             s1 == IF isDefer THEN [s EXCEPT !.invoked = @ \cup {key}] ELSE s
         IN  IF val.kind = "thrown" THEN [s EXCEPT !.err = TRUE]
             ELSE SelectOnly(Tail(only), setNestedValue(s1, key, val, ~isDefer))

RECURSIVE UnsetAll(_, _)
\* for (const key of except) { this.unsetNestedValue(props, key) }
UnsetAll(except, s) ==
    IF except = <<>> \/ s.err THEN s
    ELSE UnsetAll(Tail(except), unsetNestedValue(s, Head(except)))

resolvePartialProperties(self, rq) ==
    IF ~isPartial(rq)
    THEN LET kept == SelectSeq(self, LAMBDA e : ~IsIgnoreFirstLoad(e.v))
         IN  RState(kept, self, FALSE, KeysOf(kept), FALSE)
    ELSE LET only == ParseList(rq.only)
             except == ParseList(rq.except)
             s1 == IF Len(only) > 0
                   THEN SelectOnly(only, RState(<<>>, self, FALSE, {}, FALSE))
                   ELSE RState(self, self, TRUE, KeysOf(self), FALSE)
         IN  UnsetAll(except, s1)

\* { ...always, ...props } with always read from this.props
resolveAlways(s) ==
    IF s.err THEN s
    ELSE LET always == SelectSeq(s.self, LAMBDA e : e.v.kind = "AlwaysProp")
         IN  [s EXCEPT !.w = Spread(always, s.w), !.top = FALSE]

\* the walk of resolvePropertyInstances calls the callback of this value:
\* through __invoke() for a Lazy or Optional prop, as the function-valued
\* field callback for a Defer prop
CallsBack(v) ==
    /\ v.kind \in {"LazyProp", "OptionalProp", "DeferProp"}
    /\ v.callback.kind = "function"

RECURSIVE ResolveValue(_)
RECURSIVE ResolveEntries(_)
\* what resolvePropertyInstances leaves in the slot that held v.  A DeferProp
\* instance matches none of the instanceof tests and falls into the object
\* branch: the walk over its own fields calls its callback field and stores
\* the result in that field.  A promise has no own entries.
ResolveValue(v) ==
    CASE v.kind \in {"LazyProp", "OptionalProp", "AlwaysProp", "MergeProp"} -> Invoke(v)
      [] v.kind = "function" -> v.ret
      [] v.kind = "object" -> Obj(ResolveEntries(v.entries))
      [] v.kind = "DeferProp" ->
            [v EXCEPT !.callback = IF @.kind = "function" THEN @.ret ELSE @]
      [] OTHER -> v
ResolveEntries(es) ==
    IF es = <<>> THEN <<>>
    ELSE <<Entry(Head(es).k, ResolveValue(Head(es).v))>> \o ResolveEntries(Tail(es))

\* the top-level call: nested objects and instances are changed in place, so
\* a change below an aliased key is a change of this.props as well
resolvePropertyInstances(s) ==
    IF s.err THEN s
    ELSE LET w2 == ResolveEntries(s.w)
             shared == {k \in KeysOf(s.w) \cap s.alias :
                            /\ Has(s.self, k)
                            /\ Get(s.w, k).kind \in {"object", "DeferProp"}}
             Mut(e) == IF e.k \in shared THEN Entry(e.k, Get(w2, e.k)) ELSE e
             called == {<<k>> : k \in {key \in KeysOf(s.w) : CallsBack(Get(s.w, key))}}
         IN  [s EXCEPT !.w = w2,
                       !.self = [i \in DOMAIN s.self |-> Mut(s.self[i])],
                       !.invoked = @ \cup called]

resolveProperties(self, rq) ==
    resolvePropertyInstances(resolveAlways(resolvePartialProperties(self, rq)))

\* ------------------------------------------------------------------------
\* InertiaResponse: merge and deferred metadata, read from this.props after
\* the props have been resolved
\* ------------------------------------------------------------------------
Includes(list, item) == \E i \in DOMAIN list : list[i] = item

\* !resetProps.includes(key), with the test left out
notResetMutant(resetProps, key) == TRUE
\* !resetProps.includes(key)
notReset(resetProps, key) == ~Includes(resetProps, <<key>>)

\* the entries of this.props that resolveMergeProps keeps
mergeProps(self, rq) ==
    LET resetProps == ParseList(rq.reset)
        onlyProps == ParseList(rq.only)
        exceptProps == ParseList(rq.except)
    IN  SelectSeq(self, LAMBDA e :
            /\ e.v.kind \in {"MergeProp", "DeferProp"}
            /\ shouldMerge(e.v)
            /\ notReset(resetProps, e.k)
            /\ (Len(onlyProps) = 0 \/ Includes(onlyProps, <<e.k>>))
            /\ ~Includes(exceptProps, <<e.k>>))

RECURSIVE KeyList(_)
\* the keys of the entries, last entry first
KeyListMutant(es) == [i \in 1..Len(es) |-> es[Len(es) + 1 - i].k]
\* .map(([key, _]) => key)
KeyList(es) == IF es = <<>> THEN <<>> ELSE <<Head(es).k>> \o KeyList(Tail(es))

RECURSIVE MatchList(_)
\* .flatMap(([key, prop]) => prop.matchesOn().map(strategy => `${key}.${strategy}`))
MatchList(es) ==
    IF es = <<>> THEN <<>>
    ELSE LET on == matchesOn(Head(es).v)
         IN  [i \in DOMAIN on |-> <<Head(es).k, on[i]>>] \o MatchList(Tail(es))

\* the keys left after dropping the deep-merged ones, with the test left out
regularMergePropsMutant(es) == KeyList(es)
\* mergeProps.filter(([_, prop]) => !prop.shouldDeepMerge()).map(([key, _]) => key)
regularMergeProps(es) == KeyList(SelectSeq(es, LAMBDA e : ~shouldDeepMerge(e.v)))

\* a field is added to the result only when its list is not empty
FieldIf(name, list) == IF Len(list) > 0 THEN <<Entry(name, list)>> ELSE <<>>

resolveMergeProps(self, rq) ==
    LET es == mergeProps(self, rq)
        deepMergeProps == KeyList(SelectSeq(es, LAMBDA e : shouldDeepMerge(e.v)))
    IN  FieldIf("mergeProps", regularMergeProps(es))
        \o FieldIf("deepMergeProps", deepMergeProps)
        \o FieldIf("matchPropsOn", MatchList(es))

\* item.group || 'default', with every prop put into the default group
groupOfMutant(v) == "default"
\* item.group || 'default'
groupOf(v) == IF v.groupValue \in {NoGroup, ""} THEN "default" ELSE v.groupValue

RECURSIVE GroupKeys(_, _)
\* the reduce over the Defer entries: groups[group].push(item.key); group
\* names are not names of members of Object.prototype
GroupKeys(es, groups) ==
    IF es = <<>> THEN groups
    ELSE LET g == groupOf(Head(es).v)
             sofar == IF Has(groups, g) THEN Get(groups, g) ELSE <<>>
         IN  GroupKeys(Tail(es), Put(groups, g, Append(sofar, Head(es).k)))

resolveDeferredProps(self, rq) ==
    IF isPartial(rq) THEN <<>>
    ELSE LET deferredProps ==
                 GroupKeys(SelectSeq(self, LAMBDA e : e.v.kind = "DeferProp"), <<>>)
         IN  IF Len(deferredProps) > 0
             THEN <<Entry("deferredProps", deferredProps)>> ELSE <<>>

\* ------------------------------------------------------------------------
\* InertiaResponse: the url of the page object; a string is the sequence of
\* its characters
\* ------------------------------------------------------------------------
NoResolver == "<null>"
\* a resolver that mounts the application below /p
urlResolver(name, path) == IF name = NoResolver THEN path ELSE <<"/", "p">> \o path

\* url.length > 1 && url.endsWith('/') ? url.slice(0, -1) : url
finishUrlWithTrailingSlash(url) ==
    IF Len(url) > 1 /\ url[Len(url)] = "/" THEN SubSeq(url, 1, Len(url) - 1)
    ELSE url

\* getUrl(request): pathname + search, through the resolver, then finished
getUrl(rq, resolver) ==
    finishUrlWithTrailingSlash(urlResolver(resolver, rq.url.pathname \o rq.url.search))

\* ------------------------------------------------------------------------
\* JSON.stringify of the resolved props
\* ------------------------------------------------------------------------
JStr(str) == [kind |-> "string", s |-> str]
JBool(bool) == [kind |-> "boolean", b |-> bool]
JNull == [kind |-> "null"]
JArr(xs) == [kind |-> "array", items |-> xs]

\* own enumerable fields of a variant instance, in declaration order
InstanceFields(v) ==
    CASE v.kind \in {"LazyProp", "OptionalProp"} -> <<Entry("callback", v.callback)>>
      [] v.kind = "AlwaysProp" -> <<Entry("value", v.value)>>
      [] v.kind = "DeferProp" ->
            <<Entry("callback", v.callback),
              Entry("groupValue", IF v.groupValue = NoGroup THEN JNull
                                  ELSE JStr(v.groupValue)),
              Entry("mergeFlag", JBool(v.mergeFlag)),
              Entry("deepMergeFlag", JBool(v.deepMergeFlag)),
              Entry("matchOnArray", JArr(v.matchOnArray))>>
      [] v.kind = "MergeProp" ->
            <<Entry("value", v.value),
              Entry("mergeFlag", JBool(v.mergeFlag)),
              Entry("deepMergeFlag", JBool(v.deepMergeFlag)),
              Entry("matchOnArray", JArr(v.matchOnArray))>>
      [] OTHER -> <<>>

RECURSIVE ToJson(_)
RECURSIVE JsonEntries(_)
\* a property whose value is undefined or a function is left out, a promise
\* has no own enumerable property, a class instance is written as its fields
ToJson(v) ==
    CASE v.kind = "object" -> Obj(JsonEntries(v.entries))
      [] v.kind = "promise" -> Obj(<<>>)
      [] v.kind \in VariantKinds -> Obj(JsonEntries(InstanceFields(v)))
      [] OTHER -> v
JsonEntries(es) ==
    IF es = <<>> THEN <<>>
    ELSE IF Head(es).v.kind \in {"undefined", "function"} THEN JsonEntries(Tail(es))
    ELSE <<Entry(Head(es).k, ToJson(Head(es).v))>> \o JsonEntries(Tail(es))

\* ------------------------------------------------------------------------
\* InertiaResponseFactory
\* ------------------------------------------------------------------------
VNull == "<null>"               \* version = null
VUndefined == "<undefined>"
VDetector == "<detector>"       \* version = the VersionDetector callback

NewFactory ==
    [rootView |-> "app", sharedProps |-> <<>>, version |-> VNull,
     shouldClearHistory |-> FALSE, shouldEncryptHistory |-> FALSE,
     urlResolver |-> NoResolver]

setRootView(f, name) == [f EXCEPT !.rootView = name]
\* share(key, value)
share(f, key, value) == [f EXCEPT !.sharedProps = Put(@, key, value)]
\* share(object)
shareAll(f, o) == [f EXCEPT !.sharedProps = Spread(@, o)]
flushShared(f) == [f EXCEPT !.sharedProps = <<>>]
setVersion(f, v) == [f EXCEPT !.version = v]
resolveUrlUsing(f, resolver) == [f EXCEPT !.urlResolver = resolver]
\* getVersion(), det being what the detector callback returns when called
getVersion(f, det) ==
    IF f.version = VDetector THEN det
    ELSE IF f.version = VNull THEN VUndefined ELSE f.version
clearHistory(f) == [f EXCEPT !.shouldClearHistory = TRUE]
encryptHistory(f, encrypt) == [f EXCEPT !.shouldEncryptHistory = encrypt]

\* JavaScript truthiness of a version or header string
Truthy(str) == str \notin {"", VNull, VUndefined}

\* location(url): new Response('', { status: 409, headers: { X-Inertia-Location } })
Response(status, location, inertiaLocation, body, rule) ==
    [status |-> status, location |-> location,
     inertiaLocation |-> inertiaLocation, body |-> body, rule |-> rule]
location(url, rule) == Response(409, "", url, "", rule)

\* setupInertiaMiddleware(options, resolveErrors) on the global instance
setupInertiaMiddleware(f, opts) ==
    LET f1 == IF Truthy(opts.version) THEN setVersion(f, opts.version)
              ELSE IF f.version = VNull THEN setVersion(f, VDetector)
              ELSE f
        f2 == shareAll(f1, <<Entry("errors", Obj(<<>>))>>)
    IN  setRootView(f2, "app")

\* ------------------------------------------------------------------------
\* Protocol helpers of the core (middleware.ts)
\* ------------------------------------------------------------------------
handleVersionChange(url) == location(url, "version")

\* const location = referer || '/'; return Inertia.location(location)
handleEmptyResponse(referer) ==
    location(IF Truthy(referer) THEN referer ELSE "/", "empty")

\* the method list without DELETE
shouldChangeRedirectStatusMutant(method, status) ==
    status = 302 /\ method \in {"PUT", "PATCH"}
shouldChangeRedirectStatus(method, status) ==
    status = 302 /\ method \in {"PUT", "PATCH", "DELETE"}

\* ------------------------------------------------------------------------
\* inertiaHonoAdapter
\* ------------------------------------------------------------------------
\* status || fallback
StatusOr(status, fallback) == IF status = 0 THEN fallback ELSE status

\* what Hono's own c.text / c.redirect answer
originalText(text) == Response(200, "", "", text, "none")
originalRedirect(loc, status, rule) ==
    Response(StatusOr(status, 302), loc, "", "", rule)

\* the handler running against the context as Hono built it
PlainContext(h) ==
    IF h.kind = "text" THEN originalText(h.body)
    ELSE originalRedirect(h.location, h.status, "none")

\* the handler running against the context with c.text and c.redirect wrapped
WrappedContext(rq, h) ==
    IF h.kind = "text"
    THEN IF h.body = "" THEN handleEmptyResponse(rq.referer)
         ELSE originalText(h.body)
    ELSE IF shouldChangeRedirectStatus(rq.method, StatusOr(h.status, 302))
         THEN originalRedirect(h.location, 303, "redirect")
         ELSE originalRedirect(h.location, h.status, "none")

\* const getVersion = () => options.version ? options.version : Inertia.getVersion()
adapterVersion(f, opts, det) ==
    IF Truthy(opts.version) THEN opts.version ELSE getVersion(f, det)

\* the version test without its method test
versionChangedMutant(rq, inertiaVersion) ==
    /\ Truthy(rq.version)
    /\ Truthy(inertiaVersion)
    /\ rq.version # inertiaVersion
\* c.req.method === 'GET' && requestVersion && inertiaVersion &&
\* requestVersion !== inertiaVersion
versionChanged(rq, inertiaVersion) ==
    /\ rq.method = "GET"
    /\ Truthy(rq.version)
    /\ Truthy(inertiaVersion)
    /\ rq.version # inertiaVersion

Methods == {"GET", "POST", "PUT", "PATCH", "DELETE"}
ClientVersions == {"", "v1", "v2"}
ARequests ==
    [method : Methods, inertia : BOOLEAN, version : ClientVersions,
     referer : {"", "/prev"}, url : {"http://localhost/test"}]
Handlers ==
    {[kind |-> "text", body |-> b, location |-> "", status |-> 200] : b \in {"", "Hello"}}
    \cup {[kind |-> "redirect", body |-> "", location |-> "/redirected", status |-> st] :
            st \in {0, 301, 302, 303}}
NoRequest ==
    [method |-> "GET", inertia |-> FALSE, version |-> "", referer |-> "", url |-> ""]
NoHandler == [kind |-> "none", body |-> "", location |-> "", status |-> 0]
NoResponse == Response(0, "", "", "", "none")

\* c.header('Vary', 'X-Inertia') is called on the context before anything
\* else: a response the context builds (c.text, c.redirect) carries the
\* header; a Response object built by the core and handed to Hono as it is
\* carries it or not, as Hono's handling of returned responses decides
ContextBuilt(rq, h) == ~rq.inertia \/ ~(h.kind = "text" /\ h.body = "")

\* one request through the middleware returned by inertiaHonoAdapter(options)
HonoAdapter(rq, h) ==
    LET f == setupInertiaMiddleware(inertia, options)
        inertiaVersion == adapterVersion(f, options, manifest)
    IN  /\ inertia' = f
        /\ areq' = rq
        /\ handler' = h
        /\ IF ~rq.inertia
           THEN aresp' = PlainContext(h) /\ nextCalls' = 1 /\ vary' = TRUE
           ELSE IF versionChanged(rq, inertiaVersion)
                THEN /\ aresp' = handleVersionChange(rq.url)
                     /\ nextCalls' = 0
                     /\ vary' \in BOOLEAN
                ELSE /\ aresp' = WrappedContext(rq, h)
                     /\ nextCalls' = 1
                     /\ IF ContextBuilt(rq, h) THEN vary' = TRUE
                        ELSE vary' \in BOOLEAN
        /\ UNCHANGED <<fvars, svars, rvars, manifest, options, ivars>>

\* the NestJS path: req.Inertia.render(...) answered by
\* NestJSInertiaResponse.toResponse and its handleInertiaLogic; the body
\* InertiaResponse.toResponse returns is a JSON or an HTML document
handleInertiaLogic(rq, f, det) ==
    LET content == IF rq.inertia THEN "{page}" ELSE "<html>"
        serverVersion == getVersion(f, det)
    IN  IF ~rq.inertia THEN Response(200, "", "", content, "none")
        ELSE IF versionChanged(rq, serverVersion)
             THEN handleVersionChange(rq.url)
        ELSE IF content = ""
             THEN Response(302, IF Truthy(rq.referer) THEN rq.referer ELSE "/",
                           "", "", "empty")
        ELSE IF shouldChangeRedirectStatus(rq.method, 200)
             THEN Response(303, "", "", content, "redirect")
        ELSE Response(200, "", "", content, "none")

\* res.setHeader('Vary', 'X-Inertia'), placed after the early return of
\* handleInertiaLogic for a request without the X-Inertia header
setsVary(rq) == rq.inertia

\* one request through inertiaNestJSAdapter(options) whose handler renders
NestJSRender(rq) ==
    LET f == setupInertiaMiddleware(inertia, options)
    IN  /\ inertia' = f
        /\ areq' = rq
        /\ handler' = [kind |-> "render", body |-> "", location |-> "", status |-> 200]
        /\ aresp' = handleInertiaLogic(rq, f, manifest)
        /\ vary' = setsVary(rq)
        /\ nextCalls' = 1
        /\ UNCHANGED <<fvars, svars, rvars, manifest, options, ivars>>

ANext ==
    \/ \E rq \in ARequests : NestJSRender(rq)
    \/ \E rq \in ARequests : \E h \in Handlers : HonoAdapter(rq, h)

\* ------------------------------------------------------------------------
\* InertiaResponse: the Response under resolution
\* ------------------------------------------------------------------------
NoPage == [kind |-> "none"]
ErrorPage == [kind |-> "error"]
Url(pathname, search) == [pathname |-> pathname, search |-> search]
\* http://localhost/u
PlainUrl == Url(<<"/", "u">>, <<>>)
\* a full Inertia visit of PlainUrl
NoReq ==
    [partialComponent |-> NoHeader, only |-> <<>>, except |-> <<>>,
     reset |-> <<>>, inertia |-> "true", url |-> PlainUrl]
\* new InertiaResponse(component, props): the constructor's defaults
DirectResponse ==
    [version |-> "", rootView |-> "app", encryptHistory |-> FALSE,
     urlResolver |-> NoResolver, clearHistory |-> FALSE]

Keys == {"a", "b"}
B1 == Plain(1)
B2 == Plain(2)
ValsA ==
    {B1, Fn(B1),
     LazyProp(Fn(B1)), LazyProp(Fn(Promise(1))), OptionalProp(Fn(B1)),
     DeferProp(Fn(B1), NoGroup),
     AlwaysProp(B1), AlwaysProp(Fn(B1)), MergeProp(B1),
     Obj(<<Entry("x", B1)>>),
     Obj(<<Entry("x", LazyProp(Fn(B1)))>>),
     Obj(<<Entry("x", DeferProp(Fn(B1), NoGroup))>>)}
ValsB == {B2, AlwaysProp(B2), LazyProp(Fn(B2)), DeferProp(Fn(B2), "g1")}
ValsFor(key) == IF key = "a" THEN ValsA ELSE ValsB
WithObjects == {<<Entry("a", B1), Entry("b", B2)>>}

SeqsUpTo(S, n) == UNION {[1..m -> S] : m \in 0..n}
PartialComponents == {NoHeader, component, "Users/Index"}
OnlyItems == {<<"a">>, <<"b">>, <<"a", "x">>, <<"zz">>}
ExceptItems == {<<"a">>, <<"b">>, <<"a", "x">>, <<>>}
Requests ==
    [partialComponent : PartialComponents,
     only : SeqsUpTo(OnlyItems, MaxOnly),
     except : SeqsUpTo(ExceptItems, MaxExcept),
     reset : {<<>>}, inertia : {"true"}, url : {PlainUrl}]

\* with(key, value)
With(key, value) ==
    /\ pc = "ready"
    /\ props' = Put(props, key, value)
    /\ UNCHANGED <<fvars, svars, tree0, req, page, pc, rinfo, gvars, avars, ivars>>

\* with(object)
WithObject(o) ==
    /\ pc = "ready"
    /\ props' = Spread(props, o)
    /\ UNCHANGED <<fvars, svars, tree0, req, page, pc, rinfo, gvars, avars, ivars>>

\* JSON.stringify(page): the fields of the page object as written
PageJson(info, url, resolvedProps, meta) ==
    [component |-> component, props |-> JsonEntries(resolvedProps), url |-> url,
     version |-> info.version, clearHistory |-> info.clearHistory,
     encryptHistory |-> info.encryptHistory, meta |-> meta]

\* the transport test with every request taken for an Inertia request
isInertiaRequestMutant(rq) == TRUE
\* if (request.headers.get(Headers.INERTIA))
isInertiaRequest(rq) == Truthy(rq.inertia)

\* the Response toResponse returns for a page object: JSON for an Inertia
\* request, else the HTML document with the page in its data-page attribute
Transport(rq, pageJson) ==
    IF isInertiaRequest(rq)
    THEN [status |-> 200, contentType |-> "application/json", inertia |-> "true",
          body |-> [format |-> "json", page |-> pageJson]]
    ELSE [status |-> 200, contentType |-> "text/html", inertia |-> NoHeader,
          body |-> [format |-> "html", page |-> pageJson]]

\* the page object toResponse builds once the props are resolved (s), with
\* its props as resolved in memory and as JSON.stringify writes them, and the
\* Response built from it; info holds the other fields of the InertiaResponse
BuildPage(s, info, rq) ==
    LET url == getUrl(rq, info.urlResolver)
        meta == resolveMergeProps(s.self, rq) \o resolveDeferredProps(s.self, rq)
    IN  IF s.err THEN ErrorPage
        ELSE [kind |-> "page", component |-> component,
              props |-> s.w, json |-> JsonEntries(s.w),
              url |-> url, version |-> info.version,
              clearHistory |-> info.clearHistory,
              encryptHistory |-> info.encryptHistory, meta |-> meta,
              invoked |-> s.invoked,
              response |-> Transport(rq, PageJson(info, url, s.w, meta))]

\* toResponse(request)
ToResponse(rq) ==
    /\ pc = "ready"
    /\ LET s == resolveProperties(props, rq)
       IN  /\ props' = s.self
           /\ page' = BuildPage(s, rinfo, rq)
    /\ tree0' = props
    /\ req' = rq
    /\ pc' = "done"
    /\ UNCHANGED <<fvars, svars, rinfo, gvars, avars, ivars>>

\* the caller keeps the Response and may resolve it for another request
Again ==
    /\ pc = "done"
    /\ pc' = "ready"
    /\ page' = NoPage
    /\ req' = NoReq
    /\ tree0' = <<>>
    /\ UNCHANGED <<fvars, svars, props, rinfo, gvars, avars, ivars>>

RNext ==
    \/ \E key \in Keys : \E value \in ValsFor(key) : With(key, value)
    \/ \E o \in WithObjects : WithObject(o)
    \/ \E rq \in Requests : ToResponse(rq)
    \/ Again

\* ------------------------------------------------------------------------
\* Responses whose props carry merge and defer settings
\* ------------------------------------------------------------------------
MetaKeys == {"a", "b", "c"}
MetaValsA ==
    {MergeProp(B1), deepMerge(matchOn(MergeProp(B1), <<"id">>)),
     DeferProp(Fn(B1), "g1"), merge(DeferProp(Fn(B1), NoGroup))}
MetaValsB ==
    {B2, DeferProp(Fn(B2), "g1"),
     matchOn(MergeProp(B2), <<"id", "slug">>), deepMerge(DeferProp(Fn(B2), "g2"))}
MetaValsC == {DeferProp(Fn(B1), NoGroup)}
MetaValsFor(key) ==
    IF key = "a" THEN MetaValsA ELSE IF key = "b" THEN MetaValsB ELSE MetaValsC
MetaItems == {<<"a">>, <<"b">>}
MetaOnly == {<<>>, <<<<"a">>>>, <<<<"b">>>>, <<<<"a">>, <<"b">>>>}
MetaExcept == {<<>>, <<<<"a">>>>, <<<<"b">>>>}
MetaRequests ==
    [partialComponent : {NoHeader, component},
     only : MetaOnly,
     except : MetaExcept,
     reset : SeqsUpTo(MetaItems \cup {<<"c">>}, MaxReset),
     inertia : {"true"}, url : {PlainUrl}]

MNext ==
    \/ \E key \in MetaKeys : \E value \in MetaValsFor(key) : With(key, value)
    \/ \E rq \in MetaRequests : ToResponse(rq)
    \/ Again

\* ------------------------------------------------------------------------
\* Responses resolved for requests of several URLs, with and without the
\* X-Inertia header
\* ------------------------------------------------------------------------
TransportValsA == {B1, MergeProp(B1)}
TransportValsB == {B2, DeferProp(Fn(B2), "g1")}
TransportValsFor(key) == IF key = "a" THEN TransportValsA ELSE TransportValsB
\* /, /u, /u/ and /u//
Pathnames == {<<"/">>, <<"/", "u">>, <<"/", "u", "/">>, <<"/", "u", "/", "/">>}
\* no query, ?x and ?/
Searches == {<<>>, <<"?", "x">>, <<"?", "/">>}
TransportRequests ==
    [partialComponent : {NoHeader}, only : {<<>>}, except : {<<>>},
     reset : {<<>>}, inertia : {NoHeader, "true", "false"},
     url : {Url(p, q) : p \in Pathnames, q \in Searches}]

TNext ==
    \/ \E key \in Keys : \E value \in TransportValsFor(key) : With(key, value)
    \/ \E rq \in TransportRequests : ToResponse(rq)
    \/ Again

\* ------------------------------------------------------------------------
\* The Inertia property the NestJS and the Koa adapter attach to a request
\* ------------------------------------------------------------------------
Reqs == {1, 2}
PropKeys == {"user"}
ReqVersion(r) == IF r = 1 THEN "rv1" ELSE "rv2"
ReqVersions == {ReqVersion(r) : r \in Reqs}
RenderProps == {<<Entry("title", Plain(1))>>}
NoInst == [kind |-> "none"]

\* the clear-history flag of a new InertiaResponse, taken from the factory
responseClearHistoryMutant(f) == f.shouldClearHistory
\* this.clearHistory = false in the constructor of InertiaResponse, which
\* receives no clear-history argument from render
responseClearHistory(f) == FALSE

\* render with the shared props laid over the props of the call
renderMutant(f, comp, ps, det) ==
    [component |-> comp, props |-> Spread(ps, f.sharedProps),
     rootView |-> f.rootView,
     version |-> IF getVersion(f, det) = VUndefined THEN "" ELSE getVersion(f, det),
     encryptHistory |-> f.shouldEncryptHistory,
     urlResolver |-> f.urlResolver, clearHistory |-> responseClearHistory(f)]
\* render(component, props) of a factory: the new InertiaResponse
render(f, comp, ps, det) ==
    LET v == getVersion(f, det)
    IN  [component |-> comp, props |-> Spread(f.sharedProps, ps),
         rootView |-> f.rootView,
         version |-> IF v = VUndefined THEN "" ELSE v,
         encryptHistory |-> f.shouldEncryptHistory,
         urlResolver |-> f.urlResolver, clearHistory |-> responseClearHistory(f)]

\* the page object toResponse builds from a Response for a full request
PageOf(resp) ==
    [kind |-> "page", component |-> resp.component,
     props |-> JsonEntries(resolveProperties(resp.props, NoReq).w),
     version |-> resp.version, rootView |-> resp.rootView,
     encryptHistory |-> resp.encryptHistory, clearHistory |-> resp.clearHistory]

\* createInertiaProperty of the NestJS adapter: a new factory that takes
\* over the global version and root view when they are truthy
createInertiaProperty(g, det) ==
    LET version == getVersion(g, det)
        i1 == IF Truthy(version) THEN setVersion(NewFactory, version) ELSE NewFactory
        i2 == IF g.rootView # "" THEN setRootView(i1, g.rootView) ELSE i1
    IN  IF g.urlResolver # NoResolver THEN resolveUrlUsing(i2, g.urlResolver) ELSE i2

\* a property whose methods all call the global Inertia
usesInstanceMutant(kind) == FALSE
\* the methods of the NestJS property close over inertiaInstance, those of
\* the Koa property call the global Inertia
usesInstance(kind) == kind = "nestjs"

\* the factory the methods of request r's Inertia property act on
Target(r) == IF usesInstance(adapter) THEN inst[r] ELSE inertia

\* inertiaNestJSAdapter / inertiaKoaAdapter: attach the property, then run
\* setupInertiaMiddleware on the global instance
Middleware(r) ==
    /\ r \notin active
    /\ active' = active \cup {r}
    /\ inst' = [inst EXCEPT ![r] = IF adapter = "nestjs"
                                   THEN createInertiaProperty(inertia, manifest)
                                   ELSE NoInst]
    /\ inertia' = setupInertiaMiddleware(inertia, options)
    /\ UNCHANGED <<fvars, svars, pg, sharedBy, versionsBy, adapter, manifest, options, rvars, avars>>

\* a method of request r's property that changes factory state
Apply(r, f2) ==
    IF usesInstance(adapter)
    THEN inst' = [inst EXCEPT ![r] = f2] /\ UNCHANGED inertia
    ELSE inertia' = f2 /\ UNCHANGED inst

PropShare(r, key, value) ==
    /\ r \in active
    /\ Apply(r, share(Target(r), key, value))
    /\ sharedBy' = [sharedBy EXCEPT ![r] = @ \cup {key}]
    /\ UNCHANGED <<fvars, svars, pg, versionsBy, active, adapter, manifest, options, rvars, avars>>

PropSetVersion(r, v) ==
    /\ r \in active
    /\ Apply(r, setVersion(Target(r), v))
    /\ versionsBy' = [versionsBy EXCEPT ![r] = @ \cup {v}]
    /\ UNCHANGED <<fvars, svars, pg, sharedBy, active, adapter, manifest, options, rvars, avars>>

PropSetRootView(r, name) ==
    /\ r \in active
    /\ Apply(r, setRootView(Target(r), name))
    /\ UNCHANGED <<fvars, svars, pg, sharedBy, versionsBy, active, adapter, manifest, options, rvars, avars>>

\* the Koa property has no encryptHistory method
PropEncryptHistory(r, encrypt) ==
    /\ r \in active
    /\ adapter = "nestjs"
    /\ Apply(r, encryptHistory(Target(r), encrypt))
    /\ UNCHANGED <<fvars, svars, pg, sharedBy, versionsBy, active, adapter, manifest, options, rvars, avars>>

\* render(component, props) through the property, for a full request
PropRender(r, ps) ==
    /\ r \in active
    /\ pg' = [pg EXCEPT ![r] = PageOf(render(Target(r), component, ps, manifest))]
    /\ UNCHANGED <<fvars, svars, inst, sharedBy, versionsBy, active, adapter, gvars, rvars, avars>>

\* the request ends: its context and its property are dropped
Finish(r) ==
    /\ r \in active
    /\ active' = active \ {r}
    /\ inst' = [inst EXCEPT ![r] = NoInst]
    /\ pg' = [pg EXCEPT ![r] = NoPage]
    /\ sharedBy' = [sharedBy EXCEPT ![r] = {}]
    /\ versionsBy' = [versionsBy EXCEPT ![r] = {}]
    /\ UNCHANGED <<fvars, svars, adapter, gvars, rvars, avars>>

INext ==
    \/ \E r \in Reqs : Middleware(r)
    \/ \E r \in Reqs : \E key \in PropKeys : PropShare(r, key, Plain(r))
    \/ \E r \in Reqs : PropSetVersion(r, ReqVersion(r))
    \/ \E r \in Reqs : PropSetRootView(r, "custom")
    \/ \E r \in Reqs : PropEncryptHistory(r, TRUE)
    \/ \E r \in Reqs : \E ps \in RenderProps : PropRender(r, ps)
    \/ \E r \in Reqs : Finish(r)

\* ------------------------------------------------------------------------
\* A factory configured by the application, one render, and the Response
\* resolved later
\* ------------------------------------------------------------------------
FactoryKeys == {"a", "b"}
ShareValsA == {B1, Obj(<<Entry("x", B1)>>), Obj(<<Entry("y", B2)>>)}
ShareObjects == {<<Entry("a", Obj(<<Entry("y", B2)>>)), Entry("b", B2)>>}
FactoryRenderProps == {<<>>, <<Entry("a", Obj(<<Entry("z", B2)>>))>>}
FactoryVersions == {"v1", VDetector}
FactoryRequests == {NoReq, [NoReq EXCEPT !.inertia = NoHeader]}
NoSnap == [rq \in FactoryRequests |-> NoPage]

\* the fields of an InertiaResponse besides component and props
InfoOf(resp) ==
    [version |-> resp.version, rootView |-> resp.rootView,
     encryptHistory |-> resp.encryptHistory, urlResolver |-> resp.urlResolver,
     clearHistory |-> resp.clearHistory]

\* Inertia.share(key, value)
FShare(key, value) ==
    /\ pc \in {"factory", "ready"}
    /\ inertia' = share(inertia, key, value)
    /\ latest' = [latest EXCEPT ![key] = value]
    /\ UNCHANGED <<given, snap, svars, rvars, manifest, options, avars, ivars>>

\* Inertia.share(mapping)
FShareAll(o) ==
    /\ pc \in {"factory", "ready"}
    /\ inertia' = shareAll(inertia, o)
    /\ latest' = [k \in FactoryKeys |-> IF Has(o, k) THEN Get(o, k) ELSE latest[k]]
    /\ UNCHANGED <<given, snap, svars, rvars, manifest, options, avars, ivars>>

\* Inertia.flushShared()
FFlushShared ==
    /\ pc \in {"factory", "ready"}
    /\ inertia' = flushShared(inertia)
    /\ latest' = [k \in FactoryKeys |-> Undefined]
    /\ UNCHANGED <<given, snap, svars, rvars, manifest, options, avars, ivars>>

\* Inertia.setVersion(version) reaching a Response rendered before
FSetVersionMutant(v) ==
    /\ pc \in {"factory", "ready"}
    /\ inertia' = setVersion(inertia, v)
    /\ rinfo' = [rinfo EXCEPT !.version = v]
    /\ UNCHANGED <<fvars, svars, props, tree0, req, page, pc, manifest, options, avars, ivars>>
\* Inertia.setVersion(version)
FSetVersion(v) ==
    /\ pc \in {"factory", "ready"}
    /\ inertia' = setVersion(inertia, v)
    /\ UNCHANGED <<fvars, svars, rvars, manifest, options, avars, ivars>>

\* Inertia.setRootView(name)
FSetRootView(name) ==
    /\ pc \in {"factory", "ready"}
    /\ inertia' = setRootView(inertia, name)
    /\ UNCHANGED <<fvars, svars, rvars, manifest, options, avars, ivars>>

\* Inertia.resolveUrlUsing(resolver)
FResolveUrlUsing(resolver) ==
    /\ pc \in {"factory", "ready"}
    /\ inertia' = resolveUrlUsing(inertia, resolver)
    /\ UNCHANGED <<fvars, svars, rvars, manifest, options, avars, ivars>>

\* Inertia.encryptHistory(encrypt)
FEncryptHistory(encrypt) ==
    /\ pc \in {"factory", "ready"}
    /\ inertia' = encryptHistory(inertia, encrypt)
    /\ UNCHANGED <<fvars, svars, rvars, manifest, options, avars, ivars>>

\* Inertia.clearHistory(), called before render
FClearHistory ==
    /\ pc = "factory"
    /\ inertia' = clearHistory(inertia)
    /\ UNCHANGED <<fvars, svars, rvars, manifest, options, avars, ivars>>

\* a new build: the version callback yields another string from now on
NewBuild ==
    /\ pc \in {"factory", "ready"}
    /\ manifest = ""
    /\ manifest' = "v2"
    /\ UNCHANGED <<fvars, svars, rvars, inertia, options, avars, ivars>>

\* const response = Inertia.render(component, ps)
FRender(ps) ==
    /\ pc = "factory"
    /\ LET resp == render(inertia, component, ps, manifest)
       IN  /\ props' = resp.props
           /\ rinfo' = InfoOf(resp)
           /\ snap' = [rq \in FactoryRequests |->
                          BuildPage(resolveProperties(resp.props, rq), InfoOf(resp), rq)]
    /\ given' = ps
    /\ pc' = "ready"
    /\ UNCHANGED <<latest, svars, tree0, req, page, gvars, avars, ivars>>

FNext ==
    \/ \E value \in ShareValsA : FShare("a", value)
    \/ \E o \in ShareObjects : FShareAll(o)
    \/ FFlushShared
    \/ \E v \in FactoryVersions : FSetVersion(v)
    \/ FSetRootView("custom")
    \/ FResolveUrlUsing("prefix")
    \/ FEncryptHistory(TRUE)
    \/ FClearHistory
    \/ NewBuild
    \/ \E ps \in FactoryRenderProps : FRender(ps)
    \/ \E rq \in FactoryRequests : ToResponse(rq)
    \/ Again

\* ------------------------------------------------------------------------
\* SsrGateway.dispatch
\* ------------------------------------------------------------------------
Absent == [kind |-> "absent"]
Str(chars) == [kind |-> "string", v |-> chars]
\* the no-SSR result
NoSsr == [kind |-> "null"]

\* what the one fetch call comes to: it rejects, or it resolves to a
\* response with a status and a body; a body is not JSON, or it is JSON for
\* null, for a number, or for an object with or without body and head
Rejected == [kind |-> "rejected"]
Answer(status, data) == [kind |-> "response", status |-> status, data |-> data]
NotJson == [kind |-> "notjson"]
JsonObject(body, head) == [kind |-> "object", body |-> body, head |-> head]
\* response.ok taken for true whatever the status
okMutant(status) == TRUE
\* response.ok
ok(status) == status \in 200..299

\* !(!data || typeof data.body !== 'string')
hasBody(data) == data.kind = "object" /\ data.body.kind = "string"

\* dispatch(page, options): the value the promise resolves to and the number
\* of fetch calls made
dispatch(opts, net) ==
    IF ~opts.enabled THEN [result |-> NoSsr, fetches |-> 0]
    ELSE IF net.kind = "rejected" THEN [result |-> NoSsr, fetches |-> 1]
    ELSE IF ~ok(net.status) THEN [result |-> NoSsr, fetches |-> 1]
    ELSE IF net.data.kind = "notjson" THEN [result |-> NoSsr, fetches |-> 1]
    ELSE IF ~hasBody(net.data) THEN [result |-> NoSsr, fetches |-> 1]
    ELSE [result |-> [kind |-> "ssr",
                      head |-> IF net.data.head.kind = "list"
                               THEN net.data.head.items ELSE <<>>,
                      body |-> net.data.body.v],
          fetches |-> 1]

StrList(items) == [kind |-> "list", items |-> items]
SsrBodies == {Absent, Str("<div>"), Str(""), Plain(5)}
SsrHeads == {Absent, Str("<title>"), StrList(<<>>), StrList(<<"<title>">>)}
SsrData ==
    {NotJson, [kind |-> "null"], Plain(5)}
    \cup {JsonObject(b, h) : b \in SsrBodies, h \in SsrHeads}
SsrStatuses == {200, 204, 404, 500}
SsrOutcomes == {Rejected} \cup {Answer(st, d) : st \in SsrStatuses, d \in SsrData}
SsrOptions == [enabled : BOOLEAN, url : {"", "http://ssr:13714/render"}]
NoDispatch ==
    [options |-> [enabled |-> FALSE, url |-> ""], net |-> Rejected,
     result |-> NoSsr, fetches |-> 0, state |-> "none"]

\* await SsrGateway.dispatch(page, options), the fetch call coming to net
Dispatch(opts, net) ==
    /\ ssr' = [options |-> opts, net |-> net,
               result |-> dispatch(opts, net).result,
               fetches |-> dispatch(opts, net).fetches, state |-> "resolved"]
    /\ UNCHANGED <<rvars, gvars, avars, ivars, fvars, built>>

SNext == \E opts \in SsrOptions : \E net \in SsrOutcomes : Dispatch(opts, net)

\* ------------------------------------------------------------------------
\* A Merge or Defer prop configured through its builder methods
\* ------------------------------------------------------------------------
\* the instance: the fields the resolution reads (v) and the fields of
\* append and prepend, with the names of the builder methods called so far
Builder(v) ==
    [state |-> "built", v |-> v, appendFlag |-> TRUE,
     appendsAtPathsArray |-> <<>>, prependsAtPathsArray |-> <<>>, calls |-> {}]
NoBuilt ==
    [state |-> "none", v |-> Undefined, appendFlag |-> TRUE,
     appendsAtPathsArray |-> <<>>, prependsAtPathsArray |-> <<>>, calls |-> {}]
Called(b, name) == [b EXCEPT !.calls = @ \cup {name}]

\* `${path}.${matchOn}`
PathStrategy(path, matchOnKey) == IF path = "items" THEN "items.id" ELSE "data.id"
BuilderPaths == {"items", "data"}
NoMatch == ""

\* append(path, matchOn) for a string path
append(b, path, matchOnKey) ==
    [b EXCEPT !.appendsAtPathsArray = Append(@, path),
              !.v = IF matchOnKey # NoMatch
                    THEN [@ EXCEPT !.matchOnArray = Append(@, PathStrategy(path, matchOnKey))]
                    ELSE @]
\* prepend(path, matchOn) for a string path
prepend(b, path, matchOnKey) ==
    [b EXCEPT !.prependsAtPathsArray = Append(@, path),
              !.v = IF matchOnKey # NoMatch
                    THEN [@ EXCEPT !.matchOnArray = Append(@, PathStrategy(path, matchOnKey))]
                    ELSE @]

\* new MergeProp(value) / new DeferProp(callback)
BNew(v) ==
    /\ built' = Builder(v)
    /\ UNCHANGED <<rvars, gvars, avars, ivars, fvars, ssr>>
BMerge ==
    /\ built.state = "built"
    /\ built' = Called([built EXCEPT !.v = merge(@)], "merge")
    /\ UNCHANGED <<rvars, gvars, avars, ivars, fvars, ssr>>
BDeepMerge ==
    /\ built.state = "built"
    /\ built' = Called([built EXCEPT !.v = deepMerge(@)], "deepMerge")
    /\ UNCHANGED <<rvars, gvars, avars, ivars, fvars, ssr>>
BMatchOn(strategies) ==
    /\ built.state = "built"
    /\ built' = Called([built EXCEPT !.v = matchOn(@, strategies)], "matchOn")
    /\ UNCHANGED <<rvars, gvars, avars, ivars, fvars, ssr>>
\* append(true) / append(false)
BAppendFlag(flag) ==
    /\ built.state = "built"
    /\ built' = Called([built EXCEPT !.appendFlag = flag], "append")
    /\ UNCHANGED <<rvars, gvars, avars, ivars, fvars, ssr>>
\* prepend(true) / prepend(false)
BPrependFlag(flag) ==
    /\ built.state = "built"
    /\ built' = Called([built EXCEPT !.appendFlag = ~flag], "prepend")
    /\ UNCHANGED <<rvars, gvars, avars, ivars, fvars, ssr>>
BAppend(path, matchOnKey) ==
    /\ built.state = "built"
    /\ Len(built.appendsAtPathsArray) + Len(built.prependsAtPathsArray) < MaxPaths
    /\ built' = Called(append(built, path, matchOnKey), "append")
    /\ UNCHANGED <<rvars, gvars, avars, ivars, fvars, ssr>>
BPrepend(path, matchOnKey) ==
    /\ built.state = "built"
    /\ Len(built.appendsAtPathsArray) + Len(built.prependsAtPathsArray) < MaxPaths
    /\ built' = Called(prepend(built, path, matchOnKey), "prepend")
    /\ UNCHANGED <<rvars, gvars, avars, ivars, fvars, ssr>>

BNext ==
    \/ \E v \in {MergeProp(B1), DeferProp(Fn(B1), NoGroup)} : BNew(v)
    \/ BMerge
    \/ BDeepMerge
    \/ \E strategies \in {<<"id">>, <<"id", "slug">>} : BMatchOn(strategies)
    \/ \E flag \in BOOLEAN : BAppendFlag(flag)
    \/ \E flag \in BOOLEAN : BPrependFlag(flag)
    \/ \E path \in BuilderPaths : \E m \in {NoMatch, "id"} : BAppend(path, m)
    \/ \E path \in BuilderPaths : \E m \in {NoMatch, "id"} : BPrepend(path, m)

\* ------------------------------------------------------------------------
\* Specifications
\* ------------------------------------------------------------------------
\* a new InertiaResponse with an empty tree; no adapter at work
InitResolve ==
    /\ props = <<>> /\ tree0 = <<>> /\ req = NoReq /\ page = NoPage
    /\ pc = "ready" /\ rinfo = DirectResponse
    /\ inertia = NewFactory /\ manifest = "" /\ options = [version |-> ""]
    /\ areq = NoRequest /\ handler = NoHandler /\ aresp = NoResponse
    /\ vary = FALSE
    /\ nextCalls = 0
    /\ adapter = "nestjs" /\ active = {}
    /\ inst = [r \in Reqs |-> NoInst] /\ pg = [r \in Reqs |-> NoPage]
    /\ sharedBy = [r \in Reqs |-> {}] /\ versionsBy = [r \in Reqs |-> {}]
    /\ latest = [k \in FactoryKeys |-> Undefined] /\ given = <<>> /\ snap = NoSnap
    /\ ssr = NoDispatch /\ built = NoBuilt

\* the global instance with or without a version set at boot, the adapter
\* options with or without a version, a build manifest present or not
InitAdapter ==
    /\ props = <<>> /\ tree0 = <<>> /\ req = NoReq /\ page = NoPage
    /\ pc = "ready" /\ rinfo = DirectResponse
    /\ \E v \in {VNull, "v1"} : inertia = setVersion(NewFactory, v)
    /\ manifest \in {"", "v2"}
    /\ options \in [version : {"", "v1"}]
    /\ areq = NoRequest /\ handler = NoHandler /\ aresp = NoResponse
    /\ vary = FALSE
    /\ nextCalls = 0
    /\ adapter = "nestjs" /\ active = {}
    /\ inst = [r \in Reqs |-> NoInst] /\ pg = [r \in Reqs |-> NoPage]
    /\ sharedBy = [r \in Reqs |-> {}] /\ versionsBy = [r \in Reqs |-> {}]
    /\ latest = [k \in FactoryKeys |-> Undefined] /\ given = <<>> /\ snap = NoSnap
    /\ ssr = NoDispatch /\ built = NoBuilt

\* a fresh process: the global instance as constructed, the adapter options
\* with or without a version, the application on the NestJS or Koa adapter
InitIsolation ==
    /\ props = <<>> /\ tree0 = <<>> /\ req = NoReq /\ page = NoPage
    /\ pc = "ready" /\ rinfo = DirectResponse
    /\ inertia = NewFactory
    /\ manifest = "v2"
    /\ options \in [version : {"", "v1"}]
    /\ areq = NoRequest /\ handler = NoHandler /\ aresp = NoResponse
    /\ vary = FALSE
    /\ nextCalls = 0
    /\ adapter \in {"nestjs", "koa"} /\ active = {}
    /\ inst = [r \in Reqs |-> NoInst] /\ pg = [r \in Reqs |-> NoPage]
    /\ sharedBy = [r \in Reqs |-> {}] /\ versionsBy = [r \in Reqs |-> {}]
    /\ latest = [k \in FactoryKeys |-> Undefined] /\ given = <<>> /\ snap = NoSnap
    /\ ssr = NoDispatch /\ built = NoBuilt

\* one InertiaResponse, built and resolved
SpecResolve == InitResolve /\ [][RNext]_vars

\* requests through the Hono middleware and the NestJS response extension
SpecAdapter == InitAdapter /\ [][ANext]_vars

\* concurrent requests using the Inertia property of the NestJS or Koa adapter
SpecIsolation == InitIsolation /\ [][INext]_vars

\* one InertiaResponse with merge and defer props, built and resolved
SpecMeta == InitResolve /\ [][MNext]_vars

\* one InertiaResponse resolved for full visits of several URLs
SpecTransport == InitResolve /\ [][TNext]_vars

\* the global instance as constructed, no Response rendered yet
InitFactory ==
    /\ props = <<>> /\ tree0 = <<>> /\ req = NoReq /\ page = NoPage
    /\ pc = "factory" /\ rinfo = DirectResponse
    /\ inertia = NewFactory /\ manifest = "" /\ options = [version |-> ""]
    /\ areq = NoRequest /\ handler = NoHandler /\ aresp = NoResponse
    /\ vary = FALSE
    /\ nextCalls = 0
    /\ adapter = "nestjs" /\ active = {}
    /\ inst = [r \in Reqs |-> NoInst] /\ pg = [r \in Reqs |-> NoPage]
    /\ sharedBy = [r \in Reqs |-> {}] /\ versionsBy = [r \in Reqs |-> {}]
    /\ latest = [k \in FactoryKeys |-> Undefined] /\ given = <<>> /\ snap = NoSnap
    /\ ssr = NoDispatch /\ built = NoBuilt

\* a factory shared by the application, one Response rendered from it
SpecFactory == InitFactory /\ [][FNext]_vars

\* calls of SsrGateway.dispatch, one after the other
SpecSsr == InitResolve /\ [][SNext]_vars

\* one Merge or Defer prop and the builder calls made on it
SpecBuilder == InitResolve /\ [][BNext]_vars

Spec == SpecResolve

\* ------------------------------------------------------------------------
\* Properties of the resolution engine
\* ------------------------------------------------------------------------
Resolved == pc = "done" /\ page.kind = "page"
ItemsOf(list) == {list[i] : i \in DOMAIN list}

\* C1: on a full request (the partial-component header is absent or names
\* another component) no top-level key of the property tree that holds a
\* Lazy, Optional or Defer variant is a key of the page object's props.
C1_FirstLoadExclusion ==
    (Resolved /\ ~isPartial(req)) =>
        \A k \in KeysOf(tree0) :
            Get(tree0, k).kind \in {"LazyProp", "OptionalProp", "DeferProp"}
                => ~Has(page.props, k) /\ ~Has(page.json, k)

C1_Witness ==
    /\ Resolved /\ ~isPartial(req)
    /\ Get(tree0, "a").kind = "DeferProp"
    /\ Get(tree0, "b").kind = "LazyProp"
    /\ page.json = <<>>

\* C2: on a partial request over a tree of plain top-level values, with
\* only-list S and except-list E, the props hold exactly the keys of S that
\* exist in the tree and are not in E (all tree keys not in E when S is
\* empty), each with its original value.
C2_PartialSelection ==
    (pc = "done" /\ isPartial(req) /\ tree0 # <<>>
        /\ \A k \in KeysOf(tree0) : Get(tree0, k).kind = "plain") =>
        LET S == ItemsOf(ParseList(req.only))
            E == ItemsOf(ParseList(req.except))
            expected == {k \in KeysOf(tree0) :
                            (S # {} => <<k>> \in S) /\ <<k>> \notin E}
        IN  /\ page.kind = "page"
            /\ KeysOf(page.json) = expected
            /\ \A k \in expected : Get(page.json, k) = Get(tree0, k)

\* C3: whatever the request (full, partial with only, except or both), every
\* top-level Always prop of the tree is a key of the page's props, mapped to
\* the result of invoking it.
C3_AlwaysPresent ==
    Resolved =>
        \A k \in KeysOf(tree0) :
            Get(tree0, k).kind = "AlwaysProp" =>
                /\ Has(page.json, k)
                /\ Get(page.json, k) = ToJson(Invoke(Get(tree0, k)))

RECURSIVE KindsIn(_)
\* the kinds of all values of a tree, at any depth
KindsIn(v) ==
    IF v.kind = "object"
    THEN {"object"} \cup UNION {KindsIn(v.entries[i].v) : i \in DOMAIN v.entries}
    ELSE {v.kind}

\* C9: the props of a finalized page object hold no variant wrapper and no
\* unevaluated callback, at any depth.
C9_NoWrapperRemains ==
    Resolved => KindsIn(Obj(page.props)) \cap (VariantKinds \cup {"function"}) = {}

\* the value a callback-bearing prop settles to when its callback returns a promise
SettlesTo(v) ==
    IF v.kind \in {"LazyProp", "OptionalProp", "DeferProp"}
          /\ v.callback.kind = "function" /\ v.callback.ret.kind = "promise"
    THEN Plain(v.callback.ret.v) ELSE Undefined

\* C10: when the page object is serialized no prop is a pending promise: a
\* prop whose callback returned a promise holds the promise's settled value.
C10_PromisesAwaited ==
    Resolved =>
        /\ "promise" \notin KindsIn(Obj(page.props))
        /\ \A k \in KeysOf(page.props) :
              SettlesTo(Get(tree0, k)).kind = "plain"
                  => Get(page.json, k) = SettlesTo(Get(tree0, k))

\* ------------------------------------------------------------------------
\* Properties of the adapters' protocol rules
\* ------------------------------------------------------------------------
Answered == aresp # NoResponse
\* the server's current version once the middleware has run
ServerVersion == getVersion(inertia, manifest)
VersionMismatch ==
    /\ areq.inertia /\ areq.method = "GET"
    /\ areq.version # "" /\ ServerVersion \notin {"", VUndefined}
    /\ areq.version # ServerVersion
RefererOrRoot == IF areq.referer # "" THEN areq.referer ELSE "/"
\* the handler ran and issued a redirect with status 302, given or defaulted
Redirected302 ==
    /\ Answered /\ nextCalls = 1 /\ handler.kind = "redirect"
    /\ handler.status \in {0, 302}

C7_EmptyResponseRedirect ==
    (Answered /\ areq.inertia /\ nextCalls = 1
        /\ handler.kind = "text" /\ handler.body = "") =>
        /\ aresp.status = 302
        /\ aresp.location = RefererOrRoot

ReadView(r) ==
    IF r \in active
    THEN [sharedProps |-> Target(r).sharedProps,
          version |-> getVersion(Target(r), manifest)]
    ELSE [sharedProps |-> <<>>, version |-> VUndefined]

\* C5: with the per-request factory of createInertiaProperty, a call through
\* one request's Inertia property (share, setVersion, setRootView,
\* encryptHistory, render) leaves the global instance unchanged, and with it
\* every other request's factory, the shared props and version that request
\* reads and the page it has rendered.
C5_Isolation ==
    [][(adapter = "nestjs" /\ active' = active) =>
          \E r \in active :
              /\ inertia' = inertia
              /\ \A r2 \in Reqs \ {r} :
                    /\ inst'[r2] = inst[r2]
                    /\ pg'[r2] = pg[r2]
                    /\ ReadView(r2)' = ReadView(r2)]_vars

C5_Witness ==
    /\ adapter = "nestjs" /\ active = Reqs
    /\ Has(inst[1].sharedProps, "user") /\ inst[1].version = ReqVersion(1)
    /\ inst[1].rootView = "custom" /\ inst[1].shouldEncryptHistory
    /\ ~Has(inst[2].sharedProps, "user") /\ inst[2].version # ReqVersion(1)
    /\ ~Has(inertia.sharedProps, "user") /\ inertia.version # ReqVersion(1)
    /\ pg[2].kind = "page" /\ ~Has(pg[2].props, "user")
    /\ pg[2].version # ReqVersion(1)

\* C6: in every adapter a page rendered for a request holds a shared key
\* only if that request shared it, and a version set through a request's
\* Inertia property only if that request set it.
C6_PerRequestFactory ==
    \A r \in Reqs :
        pg[r].kind = "page" =>
            /\ \A k \in PropKeys : Has(pg[r].props, k) => k \in sharedBy[r]
            /\ pg[r].version \in ReqVersions => pg[r].version \in versionsBy[r]

\* ------------------------------------------------------------------------
\* Properties of the page object's metadata
\* ------------------------------------------------------------------------
\* the position of key k in the tree
IndexOf(o, key) == CHOOSE i \in DOMAIN o : o[i].k = key
\* list holds exactly the keys of set S, each once, in the order of the tree
ListsExactly(list, S, tree) ==
    /\ ItemsOf(list) = S
    /\ Len(list) = Cardinality(S)
    /\ \A i, j \in DOMAIN list :
          i < j => IndexOf(tree, list[i]) < IndexOf(tree, list[j])
DeferKeys == {k \in KeysOf(tree0) : Get(tree0, k).kind = "DeferProp"}
GroupName(k) ==
    IF Get(tree0, k).groupValue = NoGroup THEN "default"
    ELSE Get(tree0, k).groupValue

MergeKeys ==
    {k \in KeysOf(tree0) :
        /\ Get(tree0, k).kind \in {"MergeProp", "DeferProp"}
        /\ Get(tree0, k).mergeFlag
        /\ <<k>> \notin ItemsOf(ParseList(req.reset))
        /\ (ParseList(req.only) = <<>> \/ <<k>> \in ItemsOf(ParseList(req.only)))
        /\ <<k>> \notin ItemsOf(ParseList(req.except))}
\* the list under a field of the page object, empty when the field is left out
MetaList(name) == IF Has(page.meta, name) THEN Get(page.meta, name) ELSE <<>>

\* C12: of the keys that merge and pass the filters, deepMergeProps lists
\* those with shouldDeepMerge() and mergeProps the others, matchPropsOn holds
\* key.strategy for every strategy of matchesOn(); a field whose list is
\* empty is left out of the page object.
C12_MergeMetadata ==
    Resolved =>
        LET deep == {k \in MergeKeys : Get(tree0, k).deepMergeFlag}
            match == UNION {{<<k, strategy>> :
                               strategy \in ItemsOf(Get(tree0, k).matchOnArray)} :
                            k \in MergeKeys}
        IN  /\ ListsExactly(MetaList("deepMergeProps"), deep, tree0)
            /\ ListsExactly(MetaList("mergeProps"), MergeKeys \ deep, tree0)
            /\ \A name \in {"mergeProps", "deepMergeProps", "matchPropsOn"} :
                  Has(page.meta, name) => Len(Get(page.meta, name)) > 0
            /\ ItemsOf(MetaList("matchPropsOn")) = match
            /\ page.response.body.page.meta = page.meta

C12_Witness ==
    /\ Resolved
    /\ Get(tree0, "a") = deepMerge(matchOn(MergeProp(B1), <<"id">>))
    /\ Get(tree0, "b").kind = "plain"
    /\ ~Has(tree0, "c")
    /\ page.meta = <<Entry("deepMergeProps", <<"a">>),
                     Entry("matchPropsOn", <<<<"a", "id">>>>)>>
    /\ Get(page.props, "a") = B1

\* C13: a key named in X-Inertia-Reset is in neither mergeProps nor
\* deepMergeProps and no entry of matchPropsOn starts with it.
C13_ResetExcluded ==
    Resolved =>
        \A item \in ItemsOf(ParseList(req.reset)) :
            Len(item) = 1 =>
                /\ item[1] \notin ItemsOf(MetaList("mergeProps"))
                /\ item[1] \notin ItemsOf(MetaList("deepMergeProps"))
                /\ \A m \in ItemsOf(MetaList("matchPropsOn")) : m[1] # item[1]

C13_Witness ==
    /\ Resolved
    /\ req.reset = <<<<"a">>>>
    /\ req.only = <<>> /\ req.except = <<>>
    /\ Get(tree0, "a") = deepMerge(matchOn(MergeProp(B1), <<"id">>))
    /\ Get(tree0, "b") = matchOn(MergeProp(B2), <<"id", "slug">>)
    /\ page.meta = <<Entry("mergeProps", <<"b">>),
                     Entry("matchPropsOn", <<<<"b", "id">>, <<"b", "slug">>>>)>>

\* ------------------------------------------------------------------------
\* Properties of a partial reload
\* ------------------------------------------------------------------------
\* the top-level keys the only list names and the except list does not
Requested ==
    {k \in KeysOf(tree0) :
        /\ <<k>> \in ItemsOf(ParseList(req.only))
        /\ <<k>> \notin ItemsOf(ParseList(req.except))}

\* C14: on a partial request, a top-level Lazy, Optional or Defer prop that
\* the only list names and the except list does not name is in the resolved
\* props with the value its callback returns.
C14_RequestedCallbacks ==
    (pc = "done" /\ isPartial(req)) =>
        \A k \in Requested :
            Get(tree0, k).kind \in {"LazyProp", "OptionalProp", "DeferProp"} =>
                /\ page.kind = "page"
                /\ Has(page.props, k)
                /\ Get(page.props, k) = Get(tree0, k).callback.ret

RECURSIVE PathIn(_, _)
\* the dotted path leads to a key of the tree below cur
PathIn(cur, path) ==
    IF path = <<>> THEN TRUE
    ELSE /\ cur.kind = "object"
         /\ Has(cur.entries, Head(path))
         /\ PathIn(Get(cur.entries, Head(path)), Tail(path))

\* C20: on a partial request an entry of the only list that names a dotted
\* path missing from the tree raises no error and adds neither its final key
\* nor an intermediate key to the resolved props.
C20_MissingPathIgnored ==
    (pc = "done" /\ isPartial(req)) =>
        \A p \in ItemsOf(ParseList(req.only)) :
            (Len(p) > 1 /\ ~PathIn(Obj(tree0), p)) =>
                /\ page.kind = "page"
                /\ Has(page.props, p[1]) =>
                      \/ Get(tree0, p[1]).kind = "AlwaysProp"
                      \/ \E q \in ItemsOf(ParseList(req.only)) :
                            q # p /\ q[1] = p[1] /\ PathIn(Obj(tree0), q)

StripSlash(path) ==
    IF Len(path) > 1 /\ path[Len(path)] = "/" THEN SubSeq(path, 1, Len(path) - 1)
    ELSE path

\* C19: the page's url is the request path with one trailing slash removed
\* (the path / kept) followed by the query string as it was sent.
C19_UrlNormalized ==
    (Resolved /\ rinfo.urlResolver = NoResolver) =>
        page.url = StripSlash(req.url.pathname) \o req.url.search

\* ------------------------------------------------------------------------
\* Properties of the adapters' headers
\* ------------------------------------------------------------------------
\* C18: every response of a request that went through an adapter carries
\* Vary: X-Inertia.
C18_VaryAlways == Answered => vary

\* ------------------------------------------------------------------------
\* Properties of the factory
\* ------------------------------------------------------------------------
\* the tree of the Response: every key of the render props with its value
\* there, every other shared key with the value last shared under it
TreeAsShared ==
    /\ KeysOf(props) = KeysOf(given) \cup {k \in FactoryKeys : latest[k] # Undefined}
    /\ \A k \in KeysOf(props) :
          Get(props, k) = IF Has(given, k) THEN Get(given, k) ELSE latest[k]

\* C15: when render returns, the Response's tree maps a key of the render
\* props to its value there and any other key to the value of the most
\* recent share call that set it, each value taken whole.
C15_SharedThenProps == [][(pc = "factory" /\ pc' = "ready") => TreeAsShared']_vars

C15_Witness ==
    /\ pc = "ready" /\ TreeAsShared
    /\ given = <<Entry("a", Obj(<<Entry("z", B2)>>))>>
    /\ latest["a"] = Obj(<<Entry("x", B1)>>)
    /\ props = <<Entry("a", Obj(<<Entry("z", B2)>>)), Entry("b", B2)>>

\* C16: the page a Response produces is the one it gave when render
\* returned, whatever was called on the factory in between and whatever the
\* version callback yields by then.
C16_Snapshot == pc = "done" => page = snap[req]

C16_Witness ==
    /\ pc = "done" /\ page.kind = "page"
    /\ page.version = "" /\ inertia.version = VDetector /\ manifest = "v2"
    /\ page.url = <<"/", "u">> /\ inertia.urlResolver # NoResolver
    /\ ~page.encryptHistory /\ inertia.shouldEncryptHistory
    /\ rinfo.rootView = "app" /\ inertia.rootView = "custom"
    /\ KeysOf(page.props) = {"a", "b"} /\ inertia.sharedProps = <<>>

\* ------------------------------------------------------------------------
\* Order of the metadata lists
\* ------------------------------------------------------------------------
\* the keys of the list follow each other as they do in the tree
InTreeOrder(list) ==
    \A i, j \in DOMAIN list :
        (i < j /\ Has(tree0, list[i]) /\ Has(tree0, list[j])) =>
            IndexOf(tree0, list[i]) < IndexOf(tree0, list[j])
\* the group lists of deferredProps
GroupLists ==
    IF Has(page.meta, "deferredProps")
    THEN {Get(page.meta, "deferredProps")[i].v :
             i \in DOMAIN Get(page.meta, "deferredProps")}
    ELSE {}

Dispatched == ssr.state = "resolved"
\* the one attempt failed or was answered with a non-success status
AttemptFailed == ssr.net.kind = "rejected" \/ ~(ssr.net.status \in 200..299)
\* the body is JSON for an object with a list of strings as head and a
\* string as body
Shaped ==
    /\ ssr.net.data.kind = "object"
    /\ ssr.net.data.head.kind = "list"
    /\ ssr.net.data.body.kind = "string"
\* the body is JSON for an object with a string as body
BodyShaped ==
    /\ ssr.net.data.kind = "object"
    /\ ssr.net.data.body.kind = "string"

C24_BuilderFlags ==
    built.state = "built" =>
        /\ shouldDeepMerge(built.v) <=> "deepMerge" \in built.calls
        /\ shouldMerge(built.v) <=>
              (built.v.kind = "MergeProp" \/ built.calls \cap {"merge", "deepMerge"} # {})
        /\ shouldDeepMerge(built.v) => shouldMerge(built.v)

C24_Witness ==
    /\ built.state = "built" /\ built.v.kind = "DeferProp"
    /\ built.calls = {"deepMerge", "matchOn", "append", "prepend"}
    /\ shouldDeepMerge(built.v) /\ shouldMerge(built.v)
    /\ ~built.appendFlag /\ Len(built.v.matchOnArray) = 2

C25_InheritsGlobal ==
    [][\A r \in Reqs :
          (adapter = "nestjs" /\ r \notin active /\ r \in active') =>
              \A ps \in RenderProps :
                  PageOf(render(inst'[r], component, ps, manifest))
                      = PageOf(render(inertia, component, ps, manifest))]_vars

\* ------------------------------------------------------------------------
\* Requests for another component
\* ------------------------------------------------------------------------
\* the request without its X-Inertia-Partial-Data and -Except headers
WithoutLists(rq) == [rq EXCEPT !.only = <<>>, !.except = <<>>]

\* C26: for a request whose X-Inertia-Partial-Component is not the
\* response's component, the page is the one the same tree gives for the
\* request without its only and except headers, merge metadata included.
C26_ListsIgnoredWhenFull ==
    (Resolved /\ req.partialComponent # component) =>
        page = BuildPage(resolveProperties(tree0, WithoutLists(req)), rinfo,
                         WithoutLists(req))

\* ------------------------------------------------------------------------
\* Callbacks
\* ------------------------------------------------------------------------
\* the top-level keys of the tree that hold a Lazy, Optional or Defer prop
CallbackKeys ==
    {k \in KeysOf(tree0) :
        Get(tree0, k).kind \in {"LazyProp", "OptionalProp", "DeferProp"}}

ThroughHono == Answered /\ handler.kind # "render"

\* C30: in inertiaHonoAdapter next() is never invoked when the
\* version-mismatch rule fires, and is invoked exactly once in every other
\* case.
C30_NextAfterVersionCheck ==
    ThroughHono => nextCalls = (IF VersionMismatch THEN 0 ELSE 1)

C30_Witness ==
    /\ ThroughHono /\ VersionMismatch
    /\ handler.kind = "redirect"
    /\ aresp.rule = "version"
    /\ nextCalls = 0

\* ------------------------------------------------------------------------
\* The version option of the NestJS adapter
\* ------------------------------------------------------------------------
\* C28: with inertiaNestJSAdapter configured with a version, every page a
\* request renders through its Inertia property, without setting a version
\* of its own, carries that version.
C28_ConfiguredVersion ==
    \A r \in Reqs :
        (adapter = "nestjs" /\ options.version # "" /\ versionsBy[r] = {}
            /\ pg[r].kind = "page") =>
            pg[r].version = options.version

\* ------------------------------------------------------------------------
\* The stored tree across toResponse
\* ------------------------------------------------------------------------
\* C29: toResponse leaves the stored property tree as it found it, so that a
\* later toResponse on the same Response starts from the same tree.
C29_TreeUnchanged ==
    pc = "done" => props = tree0

====
